---- MODULE Spec2Model ----
(***************************************************************************)
(* Model of src/src/client/app/utils/calibration.ts: the pure functions    *)
(* isValidGPSInput, normalizeImageDimensions, calculateScale,              *)
(* calculateScaleFromEndpoints and calibrate.                              *)
(*                                                                         *)
(* A JavaScript number is an IEEE-754 double: every +, -, *, / and         *)
(* Math.sqrt rounds its exact result to the nearest double, ties to even,  *)
(* on significands of 53 bits kept as sequences of limbs.  Math.pow(x, 2)  *)
(* is taken as the correctly rounded square.                               *)
(* A string is a sequence of characters, each a one-character string, or   *)
(* the JavaScript escape of a character TLA+ cannot write.                 *)
(***************************************************************************)
EXTENDS Integers, Sequences, FiniteSets, TLC

VARIABLES op, pc, gpsInput, gpsResult, dimsIn, dimsOut,
          calSet, calDims, calResult, epOrigin, epOpposite, epDims, epResult

vars == <<op, pc, gpsInput, gpsResult, dimsIn, dimsOut,
          calSet, calDims, calResult, epOrigin, epOpposite, epDims, epResult>>

(***************************************************************************)
(* Bounds of the model.                                                    *)
(***************************************************************************)
MaxLen == 6

MaxPoints == 3

MaxSide == 10

(***************************************************************************)
(* Natural numbers of any size, as sequences of limbs in base 2^15, least  *)
(* significant first and without leading zero limbs (zero is <<>>).  They  *)
(* carry the 53-bit significands of the doubles, and their products.       *)
(***************************************************************************)
LimbBits == 15

LimbBase == 2 ^ LimbBits

Pow2(k) == 2 ^ k

AbsInt(a) == IF a < 0 THEN -a ELSE a

MaxInt(a, b) == IF a > b THEN a ELSE b

MinInt(a, b) == IF a < b THEN a ELSE b

RECURSIVE BitLenInt(_)
\* the number of bits of a natural number below 2^31
BitLenInt(n) == IF n = 0 THEN 0 ELSE 1 + BitLenInt(n \div 2)

RECURSIVE TrailingZerosInt(_)
TrailingZerosInt(n) == IF n % 2 = 1 THEN 0 ELSE 1 + TrailingZerosInt(n \div 2)

RECURSIVE Strip(_)
Strip(s) == IF s # <<>> /\ s[Len(s)] = 0 THEN Strip(SubSeq(s, 1, Len(s) - 1)) ELSE s

RECURSIVE Carry(_, _)
\* the limbs of s, each possibly above the base, with the carry c added
Carry(s, c) ==
    IF s = <<>>
    THEN IF c = 0 THEN <<>> ELSE <<c % LimbBase>> \o Carry(<<>>, c \div LimbBase)
    ELSE LET carried == Head(s) + c
         IN  <<carried % LimbBase>> \o Carry(Tail(s), carried \div LimbBase)

BigNat(n) == Carry(<<>>, n)

Limb(s, k) == IF k \in 1..Len(s) THEN s[k] ELSE 0

BigAdd(a, b) ==
    Carry([k \in 1..MaxInt(Len(a), Len(b)) |-> Limb(a, k) + Limb(b, k)], 0)

RECURSIVE Borrow(_, _)
\* the limbs of s, each possibly negative, with the borrow c (0 or -1) taken
Borrow(s, c) ==
    IF s = <<>> THEN <<>>
    ELSE LET borrowed == Head(s) + c
         IN  IF borrowed < 0 THEN <<borrowed + LimbBase>> \o Borrow(Tail(s), -1)
             ELSE <<borrowed>> \o Borrow(Tail(s), 0)

\* a - b for a >= b
BigSub(a, b) == Strip(Borrow([k \in 1..Len(a) |-> a[k] - Limb(b, k)], 0))

\* a * s for a limb s
BigMulSmall(a, s) ==
    IF s = 0 THEN <<>> ELSE Carry([k \in 1..Len(a) |-> a[k] * s], 0)

\* a * LimbBase^k
ShiftLimbs(a, k) == IF a = <<>> THEN <<>> ELSE [j \in 1..k |-> 0] \o a

RECURSIVE MulRows(_, _, _)
\* a times the lowest i limbs of b
MulRows(a, b, i) ==
    IF i = 0 THEN <<>>
    ELSE BigAdd(MulRows(a, b, i - 1), ShiftLimbs(BigMulSmall(a, b[i]), i - 1))

BigMul(a, b) == IF Len(a) >= Len(b) THEN MulRows(a, b, Len(b)) ELSE MulRows(b, a, Len(a))

RECURSIVE BigLeFrom(_, _, _)
\* a <= b for two limb sequences of the same length, compared from limb k down
BigLeFrom(a, b, k) ==
    IF k = 0 THEN TRUE
    ELSE IF a[k] # b[k] THEN a[k] < b[k]
    ELSE BigLeFrom(a, b, k - 1)

BigLe(a, b) ==
    IF Len(a) # Len(b) THEN Len(a) < Len(b) ELSE BigLeFrom(a, b, Len(a))

BigLt(a, b) == ~BigLe(b, a)

BigBitLen(a) ==
    IF a = <<>> THEN 0 ELSE LimbBits * (Len(a) - 1) + BitLenInt(a[Len(a)])

\* a * 2^k
BigShl(a, k) == ShiftLimbs(BigMulSmall(a, Pow2(k % LimbBits)), k \div LimbBits)

RECURSIVE ShrFrom(_, _, _)
\* limbs j.. of floor(a / 2^bits) for bits below LimbBits
ShrFrom(a, bits, j) ==
    IF j > Len(a) THEN <<>>
    ELSE <<(a[j] \div Pow2(bits)) + (Limb(a, j + 1) % Pow2(bits)) * Pow2(LimbBits - bits)>>
         \o ShrFrom(a, bits, j + 1)

\* floor(a / 2^k)
BigShr(a, k) ==
    IF k \div LimbBits >= Len(a) THEN <<>>
    ELSE Strip(ShrFrom(a, k % LimbBits, k \div LimbBits + 1))

\* bit i of a, bit 0 the least significant
BigBit(a, i) == (Limb(a, i \div LimbBits + 1) \div Pow2(i % LimbBits)) % 2

\* whether the k lowest bits of a are all 0
BigLowBitsZero(a, k) ==
    /\ \A j \in 1..MinInt(k \div LimbBits, Len(a)) : a[j] = 0
    /\ Limb(a, k \div LimbBits + 1) % Pow2(k % LimbBits) = 0

RECURSIVE BigTrailingZerosFrom(_, _)
BigTrailingZerosFrom(a, j) ==
    IF a[j] = 0 THEN LimbBits + BigTrailingZerosFrom(a, j + 1)
    ELSE TrailingZerosInt(a[j])

\* the number of trailing zero bits of a, a not zero
BigTrailingZeros(a) == BigTrailingZerosFrom(a, 1)

RECURSIVE DivSmallFrom(_, _, _)
\* quotient and remainder of limbs k.. of a, divided by the limb s
DivSmallFrom(a, s, k) ==
    IF k > Len(a) THEN [q |-> <<>>, r |-> 0]
    ELSE LET above == DivSmallFrom(a, s, k + 1)
             part == above.r * LimbBase + a[k]
         IN  [q |-> <<part \div s>> \o above.q, r |-> part % s]

RECURSIVE QuotDigitFix(_, _, _)
\* the largest q <= guess with q * b <= cur
QuotDigitFix(cur, b, guess) ==
    IF BigLe(BigMulSmall(b, guess), cur) THEN guess
    ELSE QuotDigitFix(cur, b, guess - 1)

\* floor(cur / b) for cur < b * LimbBase and the top limb of b at least half the base
QuotDigit(cur, b) ==
    QuotDigitFix(cur, b, MinInt(LimbBase - 1,
                 (Limb(cur, Len(b) + 1) * LimbBase + Limb(cur, Len(b))) \div b[Len(b)]))

RECURSIVE DivLongFrom(_, _, _, _, _)
\* long division of a by b from limb k of a down: q holds the digits found
\* for the limbs above k and r the remainder they leave
DivLongFrom(a, b, k, q, r) ==
    IF k = 0 THEN [q |-> q, r |-> r]
    ELSE LET partial == Strip(<<a[k]>> \o r)
         IN  IF BigLt(partial, b)
             THEN DivLongFrom(a, b, k - 1, <<0>> \o q, partial)
             ELSE LET digit == QuotDigit(partial, b)
                  IN  DivLongFrom(a, b, k - 1, <<digit>> \o q,
                                  BigSub(partial, BigMulSmall(b, digit)))

\* long division of a by b, the top limb of b at least half the base
DivLong(a, b) == DivLongFrom(a, b, Len(a), <<>>, <<>>)

\* the quotient of a division result and whether it left no remainder
Quotient(division, none) == [q |-> Strip(division.q), exact |-> division.r = none]

\* the quotient floor(a / b) and whether the division is exact, b not zero:
\* by one limb, or by long division with both shifted left by norm bits so
\* that the top limb of the divisor is at least half the base
BigDivShifted(a, b, norm) == Quotient(DivLong(BigShl(a, norm), BigShl(b, norm)), <<>>)

BigDiv(a, b) ==
    IF Len(b) = 1 THEN Quotient(DivSmallFrom(a, b[1], 1), 0)
    ELSE BigDivShifted(a, b, LimbBits - BitLenInt(b[Len(b)]))

RECURSIVE IntSqrtFrom(_, _)
\* Newton's iteration for floor(sqrt(n)) from an x >= floor(sqrt(n))
IntSqrtFrom(n, x) ==
    LET nextInt == (x + n \div x) \div 2
    IN  IF nextInt >= x THEN x ELSE IntSqrtFrom(n, nextInt)

IntSqrt(n) == IF n = 0 THEN 0 ELSE IntSqrtFrom(n, Pow2((BitLenInt(n) + 1) \div 2))

RECURSIVE BigSqrtFrom(_, _)
RECURSIVE BigSqrtStep(_, _, _)
\* Newton's iteration for floor(sqrt(a)) from an x >= floor(sqrt(a)):
\* nextBig is floor((x + floor(a / x)) / 2)
BigSqrtStep(a, x, nextBig) == IF BigLe(x, nextBig) THEN x ELSE BigSqrtFrom(a, nextBig)

BigSqrtFrom(a, x) == BigSqrtStep(a, x, BigShr(BigAdd(x, BigDiv(a, x).q), 1))

\* an x >= floor(sqrt(a)) from the leading bits of a, those above bit cut
BigSqrtEstimate(lead, cut) ==
    BigShl(BigNat(IntSqrt(Limb(lead, 1) + LimbBase * Limb(lead, 2)) + 1), cut \div 2)

BigSqrtCut(a, cut) == BigSqrtFrom(a, BigSqrtEstimate(BigShr(a, cut), cut))

\* floor(sqrt(a))
BigSqrt(a) ==
    IF a = <<>> THEN <<>>
    ELSE IF BigBitLen(a) <= 30 THEN BigSqrtCut(a, 0)
    ELSE BigSqrtCut(a, 2 * ((BigBitLen(a) - 29) \div 2))

RECURSIVE BigPow10(_)
\* 10^k
BigPow10(k) ==
    IF k = 0 THEN <<1>>
    ELSE IF k % 2 = 1 THEN BigMulSmall(BigPow10(k - 1), 10)
    ELSE BigMul(BigPow10(k \div 2), BigPow10(k \div 2))

(***************************************************************************)
(* JavaScript numbers: IEEE-754 binary64.  A number is a record            *)
(* [kind, sign, m, e]: kind "fin" is the value sign * m * 2^e with m a     *)
(* limb sequence, odd and below 2^53, or <<>> for zero (e = 0; the sign    *)
(* tells +0 from -0); "inf" is sign * Infinity; "nan" is NaN.  Every       *)
(* operation rounds its exact result to the nearest double, ties to even.  *)
(***************************************************************************)
NaN == [kind |-> "nan", sign |-> 1, m |-> <<>>, e |-> 0]

Inf(s) == [kind |-> "inf", sign |-> s, m |-> <<>>, e |-> 0]

Zero(s) == [kind |-> "fin", sign |-> s, m |-> <<>>, e |-> 0]

\* the double 2^k, for k in -1074..1023
PowerOfTwo(k) == [kind |-> "fin", sign |-> 1, m |-> <<1>>, e |-> k]

IsNaN(x) == x.kind = "nan"

IsFinite(x) == x.kind = "fin"

IsZero(x) == x.kind = "fin" /\ x.m = <<>>

\* the double s * n * 2^e for n not zero with tz trailing zero bits
Canonical(s, n, e, tz) == [kind |-> "fin", sign |-> s, m |-> BigShr(n, tz), e |-> e + tz]

\* the double s * n * 2^e for an n that fits the significand at exponent e
Pack(s, n, e) ==
    IF n = <<>> THEN Zero(s)
    ELSE IF BigBitLen(n) + e > 1024 THEN Inf(s)
    ELSE Canonical(s, n, e, BigTrailingZeros(n))

\* kept rounded to even: half tells whether the first bit dropped is 1 and
\* rest whether anything lies below it
RoundKept(s, kept, e, half, rest) ==
    Pack(s, IF half /\ (rest \/ BigBit(kept, 0) = 1) THEN BigAdd(kept, <<1>>) ELSE kept, e)

\* s * n * 2^e with the drop lowest bits of n rounded away
RoundDropping(s, n, e, sticky, drop) ==
    IF drop <= 0 THEN Pack(s, n, e)
    ELSE RoundKept(s, BigShr(n, drop), e + drop, BigBit(n, drop - 1) = 1,
                   sticky \/ ~BigLowBitsZero(n, drop - 1))

\* the double nearest to s * n * 2^e, or to a value strictly between that
\* and s * (n + 1) * 2^e when sticky: 53 bits are kept, fewer below 2^-1022
Round(s, n, e, sticky) ==
    RoundDropping(s, n, e, sticky,
                  IF e + BigBitLen(n) - 1 >= -1022 THEN BigBitLen(n) - 53 ELSE -1074 - e)

RoundQuotient(s, quotient, e) == Round(s, quotient.q, e, ~quotient.exact)

RoundRatioWidened(s, n, d, e, widen) ==
    RoundQuotient(s, BigDiv(BigShl(n, widen), d), e - widen)

\* the double nearest to s * (n / d) * 2^e, for n and d not zero
RoundRatio(s, n, d, e) ==
    RoundRatioWidened(s, n, d, e, MaxInt(0, 55 + BigBitLen(d) - BigBitLen(n)))

\* the double of the decimal literal n / d, for integers n and d > 0
Rat(n, d) ==
    IF n = 0 THEN Zero(1)
    ELSE RoundRatio(IF n < 0 THEN -1 ELSE 1, BigNat(AbsInt(n)), BigNat(d), 0)

\* the double of the integer n
Num(n) ==
    IF n = 0 THEN Zero(1)
    ELSE Round(IF n < 0 THEN -1 ELSE 1, BigNat(AbsInt(n)), 0, FALSE)

NumNeg(x) == IF IsNaN(x) THEN NaN ELSE [x EXCEPT !.sign = -x.sign]

NumAbs(x) == IF IsNaN(x) THEN NaN ELSE [x EXCEPT !.sign = 1]

\* the position above the leading bit of a finite x that is not zero
Top(x) == x.e + BigBitLen(x.m)

\* the significand of x at exponent low <= x.e
Aligned(x, low) == BigShl(x.m, x.e - low)

MagLeAligned(x, y, low) == BigLe(Aligned(x, low), Aligned(y, low))

\* |x| <= |y| for finite x and y
MagLe(x, y) ==
    IF x.m = <<>> THEN TRUE
    ELSE IF y.m = <<>> THEN FALSE
    ELSE IF Top(x) # Top(y) THEN Top(x) < Top(y)
    ELSE MagLeAligned(x, y, MinInt(x.e, y.e))

\* sx * nx * 2^low + sy * ny * 2^low, rounded
AddAligned(sx, nx, sy, ny, low) ==
    IF sx = sy THEN Round(sx, BigAdd(nx, ny), low, FALSE)
    ELSE IF nx = ny THEN Zero(1)
    ELSE IF BigLe(ny, nx) THEN Round(sx, BigSub(nx, ny), low, FALSE)
    ELSE Round(sy, BigSub(ny, nx), low, FALSE)

AddAt(x, y, low) == AddAligned(x.sign, Aligned(x, low), y.sign, Aligned(y, low), low)

\* x + y for finite x and y, neither zero: an addend more than 64 bits below
\* the other cannot change the rounded sum
AddFinite(x, y) ==
    IF Top(x) - Top(y) > 64 THEN x
    ELSE IF Top(y) - Top(x) > 64 THEN y
    ELSE AddAt(x, y, MinInt(x.e, y.e))

\* x + y
NumAdd(x, y) ==
    IF IsNaN(x) \/ IsNaN(y) THEN NaN
    ELSE IF x.kind = "inf"
         THEN IF y.kind = "inf" /\ y.sign # x.sign THEN NaN ELSE x
    ELSE IF y.kind = "inf" THEN y
    ELSE IF IsZero(x)
         THEN IF IsZero(y) THEN Zero(IF x.sign = y.sign THEN x.sign ELSE 1) ELSE y
    ELSE IF IsZero(y) THEN x
    ELSE AddFinite(x, y)

\* x - y
NumSub(x, y) == NumAdd(x, NumNeg(y))

\* x * y
NumMul(x, y) ==
    IF IsNaN(x) \/ IsNaN(y) THEN NaN
    ELSE IF x.kind = "inf" \/ y.kind = "inf"
         THEN IF IsZero(x) \/ IsZero(y) THEN NaN ELSE Inf(x.sign * y.sign)
    ELSE IF IsZero(x) \/ IsZero(y) THEN Zero(x.sign * y.sign)
    ELSE Round(x.sign * y.sign, BigMul(x.m, y.m), x.e + y.e, FALSE)

\* x / y
NumDiv(x, y) ==
    IF IsNaN(x) \/ IsNaN(y) THEN NaN
    ELSE IF x.kind = "inf"
         THEN IF y.kind = "inf" THEN NaN ELSE Inf(x.sign * y.sign)
    ELSE IF y.kind = "inf" THEN Zero(x.sign * y.sign)
    ELSE IF IsZero(y)
         THEN IF IsZero(x) THEN NaN ELSE Inf(x.sign * y.sign)
    ELSE IF IsZero(x) THEN Zero(x.sign * y.sign)
    ELSE RoundRatio(x.sign * y.sign, x.m, y.m, x.e - y.e)

\* the double nearest to sqrt(radicand) * 2^e, given floor(sqrt(radicand))
RoundRoot(root, radicand, e) == Round(1, root, e, BigMul(root, root) # radicand)

SqrtWidened(radicand, e) == RoundRoot(BigSqrt(radicand), radicand, e)

SqrtWiden(m2, e2, t) == SqrtWidened(BigShl(m2, 2 * t), (e2 - 2 * t) \div 2)

\* sqrt(m2 * 2^e2) for an even e2: m2 is widened to at least 111 bits, so
\* that the root has the 53 bits and more
SqrtEven(m2, e2) == SqrtWiden(m2, e2, MaxInt(0, (111 - BigBitLen(m2)) \div 2))

\* Math.sqrt(x)
NumSqrt(x) ==
    IF IsNaN(x) THEN NaN
    ELSE IF IsZero(x) THEN x
    ELSE IF x.sign < 0 THEN NaN
    ELSE IF x.kind = "inf" THEN x
    ELSE IF x.e % 2 = 1 THEN SqrtEven(BigShl(x.m, 1), x.e - 1)
    ELSE SqrtEven(x.m, x.e)

\* Math.pow(x, 2): the square of x, rounded once
NumSquare(x) == NumMul(x, x)

\* x < y
NumLt(x, y) ==
    IF IsNaN(x) \/ IsNaN(y) THEN FALSE
    ELSE IF IsZero(x) /\ IsZero(y) THEN FALSE
    ELSE IF x.sign # y.sign THEN x.sign < y.sign
    ELSE IF x.kind = "inf" THEN x.sign < 0 /\ y.kind # "inf"
    ELSE IF y.kind = "inf" THEN y.sign > 0
    ELSE IF x.sign > 0 THEN ~MagLe(y, x) ELSE ~MagLe(x, y)

NumGt(x, y) == NumLt(y, x)

\* x == y
NumEq(x, y) ==
    /\ ~IsNaN(x)
    /\ ~IsNaN(y)
    /\ (x = y \/ (IsZero(x) /\ IsZero(y)))

NumLe(x, y) == NumLt(x, y) \/ NumEq(x, y)

NumGe(x, y) == NumLe(y, x)

\* floor(scaled * 2^e + 1/2)
FixedDigits(scaled, e) ==
    IF e >= 0 THEN BigShl(scaled, e)
    ELSE IF BigBitLen(scaled) < -e - 1 THEN <<>>
    ELSE BigShr(BigAdd(scaled, BigShl(<<1>>, -e - 1)), -e)

\* the double of the text of s * fixed / 10^digits
FixedParsed(s, fixed, digits) ==
    IF fixed = <<>> THEN Zero(s) ELSE RoundRatio(s, fixed, BigPow10(digits), 0)

\* Number.parseFloat(x.toFixed(digits)): toFixed picks the integer n with
\* n / 10^digits nearest to x, the larger one on a tie, and prints x itself
\* (in exponent notation) from 10^21 up; parseFloat reads the text back
ToFixedParsed(x, digits) ==
    IF x.kind # "fin" THEN x
    ELSE IF IsZero(x) THEN Zero(1)
    ELSE IF Top(x) > 80 \/ (x.e >= 0 /\ BigLe(BigPow10(21), BigShl(x.m, x.e)))
         THEN x
    ELSE FixedParsed(x.sign, FixedDigits(BigMul(x.m, BigPow10(digits)), x.e), digits)

(***************************************************************************)
(* Strings, and parseFloat.                                                *)
(***************************************************************************)
Digits == {"0", "1", "2", "3", "4", "5", "6", "7", "8", "9"}

DigitVal(c) ==
    CASE c = "0" -> 0 [] c = "1" -> 1 [] c = "2" -> 2 [] c = "3" -> 3
      [] c = "4" -> 4 [] c = "5" -> 5 [] c = "6" -> 6 [] c = "7" -> 7
      [] c = "8" -> 8 [] c = "9" -> 9

\* StrWhiteSpaceChar: TAB, LF, VT, FF, CR, SP, NBSP, BOM, LS, PS and the
\* space separators of Unicode
WhiteSpace ==
    {"\t", "\n", "\\v", "\f", "\r", " ", "\\u00A0", "\\uFEFF", "\\u2028", "\\u2029",
     "\\u1680", "\\u2000", "\\u2001", "\\u2002", "\\u2003", "\\u2004", "\\u2005",
     "\\u2006", "\\u2007", "\\u2008", "\\u2009", "\\u200A", "\\u202F", "\\u205F",
     "\\u3000"}

\* input.indexOf(c), 0-based, -1 when absent
IndexOf(s, c) ==
    IF \E i \in 1..Len(s) : s[i] = c
    THEN (CHOOSE i \in 1..Len(s) : s[i] = c /\ \A j \in 1..(i - 1) : s[j] # c) - 1
    ELSE -1

\* input.split(c): the fields between the occurrences of c
RECURSIVE Split(_, _)
Split(s, c) ==
    IF IndexOf(s, c) = -1
    THEN <<s>>
    ELSE <<SubSeq(s, 1, IndexOf(s, c))>>
         \o Split(SubSeq(s, IndexOf(s, c) + 2, Len(s)), c)

\* the length of the longest prefix of s made of characters of set
RunOf(s, set) ==
    IF \A i \in 1..Len(s) : s[i] \in set THEN Len(s)
    ELSE (CHOOSE i \in 1..Len(s) : s[i] \notin set /\ \A j \in 1..(i - 1) : s[j] \in set) - 1

\* s without its leading white space
TrimStart(s) == SubSeq(s, RunOf(s, WhiteSpace) + 1, Len(s))

StartsWith(s, prefix) ==
    Len(s) >= Len(prefix) /\ SubSeq(s, 1, Len(prefix)) = prefix

\* the length of the longest prefix of s made of decimal digits
DigitRun(s) == RunOf(s, Digits)

\* a sequence of decimal digits without its leading zeros
StripZeros(s) == SubSeq(s, RunOf(s, {"0"}) + 1, Len(s))

\* the value of a sequence of decimal digits, as limbs: of the digits before
\* the last half times a power of 10, plus that of the last half
RECURSIVE DigitsValue(_)
DigitsValue(s) ==
    IF s = <<>> THEN <<>>
    ELSE IF Len(s) = 1 THEN BigNat(DigitVal(s[1]))
    ELSE BigAdd(BigMul(DigitsValue(SubSeq(s, 1, Len(s) - Len(s) \div 2)),
                       BigPow10(Len(s) \div 2)),
                DigitsValue(SubSeq(s, Len(s) - Len(s) \div 2 + 1, Len(s))))

\* the integer of at most two limbs, as a number of TLA+
SmallOf(a) == Limb(a, 1) + LimbBase * Limb(a, 2)

\* an integer of any size: sign and magnitude
Signed(s, a) == [sign |-> s, magnitude |-> a]

\* the integer s * a + k, for a natural number a of any size and an integer k
SignedSum(s, a, k) ==
    IF (k >= 0) = (s > 0) THEN Signed(s, BigAdd(a, BigNat(AbsInt(k))))
    ELSE IF BigLe(BigNat(AbsInt(k)), a) THEN Signed(s, BigSub(a, BigNat(AbsInt(k))))
    ELSE Signed(-s, BigSub(BigNat(AbsInt(k)), a))

\* the double nearest to sign * mantissa * 10^scale, mantissa not zero
DecimalValue(sign, mantissa, scale) ==
    IF scale >= 0 THEN Round(sign, BigMul(mantissa, BigPow10(scale)), 0, FALSE)
    ELSE RoundRatio(sign, mantissa, BigPow10(-scale), 0)

\* the double nearest to sign * 0.d1d2...dcount * 10^position, the d's the
\* digits of mantissa, d1 not 0: Infinity from 10^309 on, 0 below 10^-325,
\* whatever the size of position
DecimalAt(sign, mantissa, count, position) ==
    IF position.sign > 0 /\ BigLe(BigNat(310), position.magnitude) THEN Inf(sign)
    ELSE IF position.sign < 0 /\ BigLe(BigNat(325), position.magnitude) THEN Zero(sign)
    ELSE DecimalValue(sign, mantissa, position.sign * SmallOf(position.magnitude) - count)

\* the double of the significant digits, fracLen of the digits of the literal
\* after the point, times 10^exponent
DecimalSignificant(sign, significant, fracLen, exponent) ==
    IF significant = <<>> THEN Zero(sign)
    ELSE DecimalAt(sign, DigitsValue(significant), Len(significant),
                   SignedSum(exponent.sign, exponent.magnitude,
                             Len(significant) - fracLen))

\* the double of the literal with these digits, fracLen of them after the
\* point, and this exponent
DecimalLiteral(sign, digits, fracLen, exponent) ==
    DecimalSignificant(sign, StripZeros(digits), fracLen, exponent)

\* the exponent read from the digits after the mark and the sign
ExponentRead(expSigned, negative, expDigitsSrc, expLen) ==
    IF expLen = 0 THEN [len |-> 0, sign |-> 1, magnitude |-> <<>>]
    ELSE [len |-> 1 + (IF expSigned THEN 1 ELSE 0) + expLen,
          sign |-> IF negative THEN -1 ELSE 1,
          magnitude |-> DigitsValue(SubSeq(expDigitsSrc, 1, expLen))]

\* the exponent after the mark e or E: afterMark is what follows the mark
ExponentAfterMark(afterMark, expSigned) ==
    ExponentRead(expSigned, expSigned /\ Head(afterMark) = "-",
                 IF expSigned THEN Tail(afterMark) ELSE afterMark,
                 DigitRun(IF expSigned THEN Tail(afterMark) ELSE afterMark))

\* the ExponentPart at the head of s: its length, its sign and its magnitude,
\* length 0 and value 0 when s does not start with e or E, an optional sign
\* and a digit
ExponentPart(s) ==
    IF s # <<>> /\ Head(s) \in {"e", "E"}
    THEN ExponentAfterMark(Tail(s), Tail(s) # <<>> /\ Head(Tail(s)) \in {"+", "-"})
    ELSE [len |-> 0, sign |-> 1, magnitude |-> <<>>]

\* the number of a mantissa, body the text from its first digit or point on:
\* intLen digits, then fracLen digits after a point when hasDot
ParseMantissa(signOf, body, intLen, hasDot, fracSrc, fracLen) ==
    IF intLen = 0 /\ fracLen = 0 THEN NaN
    ELSE DecimalLiteral(signOf,
                        SubSeq(body, 1, intLen) \o SubSeq(fracSrc, 1, fracLen),
                        fracLen,
                        ExponentPart(IF hasDot
                                     THEN SubSeq(fracSrc, fracLen + 1, Len(fracSrc))
                                     ELSE SubSeq(body, intLen + 1, Len(body))))

ParseFraction(signOf, body, intLen, hasDot, fracSrc) ==
    ParseMantissa(signOf, body, intLen, hasDot, fracSrc, DigitRun(fracSrc))

ParseDigits(signOf, body, intLen, hasDot) ==
    ParseFraction(signOf, body, intLen, hasDot,
                  IF hasDot THEN SubSeq(body, intLen + 2, Len(body)) ELSE <<>>)

ParseInteger(signOf, body, intLen) ==
    ParseDigits(signOf, body, intLen, intLen < Len(body) /\ body[intLen + 1] = ".")

\* the number of the text after the sign
ParseUnsigned(signOf, body) ==
    IF StartsWith(body, <<"I", "n", "f", "i", "n", "i", "t", "y">>) THEN Inf(signOf)
    ELSE ParseInteger(signOf, body, DigitRun(body))

\* the number of a text without leading white space
ParseSigned(trimmed) ==
    IF trimmed # <<>> /\ Head(trimmed) \in {"+", "-"}
    THEN ParseUnsigned(IF Head(trimmed) = "-" THEN -1 ELSE 1, Tail(trimmed))
    ELSE ParseUnsigned(1, trimmed)

\* parseFloat: leading white space skipped, then the longest prefix that is a
\* StrDecimalLiteral (an optional sign, then Infinity or digits, '.', digits
\* and an exponent part); NaN when there is none.
ParseFloat(s) == ParseSigned(TrimStart(s))

\* input.split(',').map(parseFloat): the number of each field
RECURSIVE ParseFields(_)
ParseFields(fields) ==
    IF fields = <<>> THEN <<>>
    ELSE <<ParseFloat(Head(fields))>> \o ParseFields(Tail(fields))

\* the bounds of a latitude and of a longitude
MinLatitude == Num(-90)

MaxLatitude == Num(90)

MinLongitude == Num(-180)

MaxLongitude == Num(180)

\* isValidGPSInput with longitude < 180 in place of <= 180
IsValidGPSInputStrictUpper(input) ==
    IF IndexOf(input, ",") = -1 THEN FALSE
    ELSE LET arrayStrict == ParseFields(Split(input, ","))
         IN  /\ NumGe(arrayStrict[1], MinLatitude)
             /\ NumLe(arrayStrict[1], MaxLatitude)
             /\ NumGe(arrayStrict[2], MinLongitude)
             /\ NumLt(arrayStrict[2], MaxLongitude)

\* isValidGPSInput; array is 1-based here, so latitudeIndex 0 is 1 and
\* longitudeIndex 1 is 2.  The input has a comma, so array[2] exists.
IsValidGPSInput(input) ==
    IF IndexOf(input, ",") = -1 THEN FALSE
    ELSE LET array == ParseFields(Split(input, ","))
             latitudeIndex == 1
             longitudeIndex == 2
             validLatitude == /\ NumGe(array[latitudeIndex], MinLatitude)
                              /\ NumLe(array[latitudeIndex], MaxLatitude)
             validLongitude == /\ NumGe(array[longitudeIndex], MinLongitude)
                               /\ NumLe(array[longitudeIndex], MaxLongitude)
         IN  validLatitude /\ validLongitude

(***************************************************************************)
(* normalizeImageDimensions.                                               *)
(***************************************************************************)
Dim(w, h) == [width |-> w, height |-> h]

\* normalizeImageDimensions with the ratio of the first branch inverted
NormalizeImageDimensionsInverted(dimensions) ==
    IF NumGt(dimensions.width, dimensions.height)
    THEN Dim(Num(500), NumDiv(NumMul(Num(500), dimensions.width), dimensions.height))
    ELSE Dim(NumDiv(NumMul(Num(500), dimensions.width), dimensions.height), Num(500))

\* normalizeImageDimensions with 250 for 500 in the width of the second branch
NormalizeImageDimensionsHalved(dimensions) ==
    IF NumGt(dimensions.width, dimensions.height)
    THEN Dim(Num(500), NumDiv(NumMul(Num(500), dimensions.height), dimensions.width))
    ELSE Dim(NumDiv(NumMul(Num(250), dimensions.width), dimensions.height), Num(500))

NormalizeImageDimensions(dimensions) ==
    IF NumGt(dimensions.width, dimensions.height)
    THEN Dim(Num(500), NumDiv(NumMul(Num(500), dimensions.height), dimensions.width))
    ELSE Dim(NumDiv(NumMul(Num(500), dimensions.width), dimensions.height), Num(500))

(***************************************************************************)
(* calculateScale, calculateScaleFromEndpoints and calibrate.              *)
(***************************************************************************)
Cartesian(x, y) == [x |-> x, y |-> y]

GPS(lat, lon) == [latitude |-> lat, longitude |-> lon]

CalibratedPoint(c, g) == [cartesian |-> c, gps |-> g]

MapScale(sx, sy) == [degreePerUnitX |-> sx, degreePerUnitY |-> sy]

CalculateScale(p1, p2) ==
    LET deltaLatitude == NumSub(p1.gps.latitude, p2.gps.latitude)
        deltaYInUnits == NumSub(p1.cartesian.y, p2.cartesian.y)
        deltaLongitude == NumSub(p1.gps.longitude, p2.gps.longitude)
        deltaXInUnits == NumSub(p1.cartesian.x, p2.cartesian.x)
    IN  MapScale(NumDiv(deltaLongitude, deltaXInUnits),
                 NumDiv(deltaLatitude, deltaYInUnits))

\* calculateScaleFromEndpoints on the raw dimensions, not the normalized ones
CalculateScaleFromEndpointsRaw(origin, opposite, imageDimensions) ==
    CalculateScale(CalibratedPoint(Cartesian(Num(0), Num(0)), origin),
                   CalibratedPoint(Cartesian(imageDimensions.width,
                                             imageDimensions.height), opposite))

CalculateScaleFromEndpoints(origin, opposite, imageDimensions) ==
    LET endpointDimensions == NormalizeImageDimensions(imageDimensions)
        originComplete == CalibratedPoint(Cartesian(Num(0), Num(0)), origin)
        oppositeComplete ==
            CalibratedPoint(Cartesian(endpointDimensions.width,
                                      endpointDimensions.height), opposite)
    IN  CalculateScale(originComplete, oppositeComplete)

\* the pairs (i, j), 0-based, in the order of the nested loops of calibrate
RECURSIVE PairsFrom(_, _, _)
PairsFrom(i, j, n) ==
    IF i >= n - 1 THEN <<>>
    ELSE IF j >= n THEN PairsFrom(i + 1, i + 2, n)
    ELSE <<<<i, j>>>> \o PairsFrom(i, j + 1, n)

\* scales: one MapScale per pair, in loop order
PairScales(calibrationSet) ==
    LET pairs == PairsFrom(0, 1, Len(calibrationSet))
    IN  [k \in 1..Len(pairs) |->
            CalculateScale(calibrationSet[pairs[k][1] + 1],
                           calibrationSet[pairs[k][2] + 1])]

RECURSIVE ScaleSum(_, _, _)
\* XScaleSum or YScaleSum after the first k entries of scales are added to 0
ScaleSum(scales, axis, k) ==
    IF k = 0 THEN Num(0)
    ELSE NumAdd(ScaleSum(scales, axis, k - 1), scales[k][axis])

\* degreePerUnitX and degreePerUnitY: the sums divided by scales.length
AverageScale(scales) ==
    MapScale(NumDiv(ScaleSum(scales, "degreePerUnitX", Len(scales)), Num(Len(scales))),
             NumDiv(ScaleSum(scales, "degreePerUnitY", Len(scales)), Num(Len(scales))))

\* the error loop bounded by scales.length in place of calibrationSet.length
ErrorLoopIndicesOverScales(calibrationSet) == 0..(Len(PairScales(calibrationSet)) - 1)

\* the 0-based indices of scales the error loop reads
ErrorLoopIndices(calibrationSet) == 0..(Len(calibrationSet) - 1)

\* scalesWithMaxDifference with the averaged scale left out of the difference
RECURSIVE MaxDifferenceFromZero(_, _, _, _)
MaxDifferenceFromZero(scales, axis, avg, k) ==
    IF k = 0 THEN Num(0)
    ELSE LET beforeZ == MaxDifferenceFromZero(scales, axis, avg, k - 1)
             differenceZ == NumAbs(scales[k][axis])
         IN  IF NumGt(differenceZ, beforeZ) THEN differenceZ ELSE beforeZ

RECURSIVE MaxDifference(_, _, _, _)
\* scalesWithMaxDifference on one axis after the loop has run for i = 0..k-1
MaxDifference(scales, axis, avg, k) ==
    IF k = 0 THEN Num(0)
    ELSE LET before == MaxDifference(scales, axis, avg, k - 1)
             difference == NumAbs(NumSub(scales[k][axis], avg))
         IN  IF NumGt(difference, before) THEN difference ELSE before

\* diagonal: Math.sqrt(Math.pow(width * degreePerUnitX, 2)
\*                     + Math.pow(height * degreePerUnitY, 2))
Diagonal(dimensions, scale) ==
    NumSqrt(NumAdd(NumSquare(NumMul(dimensions.width, scale.degreePerUnitX)),
                   NumSquare(NumMul(dimensions.height, scale.degreePerUnitY))))

\* Number.parseFloat((maxDifference / diagonal * 100).toFixed(3))
ErrorPercentage(maxDifference, diagonal) ==
    ToFixedParsed(NumMul(NumDiv(maxDifference, diagonal), Num(100)), 3)

TypeError == [status |-> "TypeError"]

\* originCoordinate: the GPS coordinates of the origin, from calibrationSet[0]
OriginCoordinate(anchor, scale) ==
    GPS(NumSub(anchor.gps.latitude, NumMul(scale.degreePerUnitY, anchor.cartesian.y)),
        NumSub(anchor.gps.longitude, NumMul(scale.degreePerUnitX, anchor.cartesian.x)))

\* oppositeCoordinate: the corner opposite the origin
OppositeCoordinate(originCoordinate, normalizedDimensions, scale) ==
    GPS(NumAdd(originCoordinate.latitude,
               NumMul(normalizedDimensions.height, scale.degreePerUnitY)),
        NumAdd(originCoordinate.longitude,
               NumMul(normalizedDimensions.width, scale.degreePerUnitX)))

\* maxErrorPercentage, after the error loop has run loopCount times
MaxErrorPercentage(scales, scale, diagonal, loopCount) ==
    [x |-> ErrorPercentage(
              MaxDifference(scales, "degreePerUnitX", scale.degreePerUnitX, loopCount),
              diagonal),
     y |-> ErrorPercentage(
              MaxDifference(scales, "degreePerUnitY", scale.degreePerUnitY, loopCount),
              diagonal)]

\* result: maxError, origin and opposite
CalibrationResult(maxErrorPercentage, originCoordinate, oppositeCoordinate) ==
    [status |-> "returned", maxError |-> maxErrorPercentage,
     origin |-> originCoordinate, opposite |-> oppositeCoordinate]

\* calibrate from the origin on
CalibrateFromOrigin(calibrationSet, normalizedDimensions, scales, scale, originCoordinate) ==
    CalibrationResult(
        MaxErrorPercentage(scales, scale, Diagonal(normalizedDimensions, scale),
                           Cardinality(ErrorLoopIndices(calibrationSet))),
        originCoordinate,
        OppositeCoordinate(originCoordinate, normalizedDimensions, scale))

\* calibrate from the averaged scale on
CalibrateFromAverage(calibrationSet, normalizedDimensions, scales, scale) ==
    CalibrateFromOrigin(calibrationSet, normalizedDimensions, scales, scale,
                        OriginCoordinate(calibrationSet[1], scale))

\* calibrate from the scales of the pairs on, or TypeError where a property
\* of undefined is read: calibrationSet[0].gps of an empty array,
\* scales[i].degreePerUnitX of a missing entry
CalibrateFromScales(calibrationSet, normalizedDimensions, scales) ==
    IF Len(calibrationSet) = 0
    THEN TypeError
    ELSE IF \E i \in ErrorLoopIndices(calibrationSet) : i + 1 \notin DOMAIN scales
    THEN TypeError
    ELSE CalibrateFromAverage(calibrationSet, normalizedDimensions, scales,
                              AverageScale(scales))

\* calibrate: the result returned, or TypeError
Calibrate(calibrationSet, imageDimensions) ==
    CalibrateFromScales(calibrationSet, NormalizeImageDimensions(imageDimensions),
                        PairScales(calibrationSet))

(***************************************************************************)
(* The inputs the operations are called with.                              *)
(***************************************************************************)
\* the characters of decimal texts
Alphabet == {",", "-", ".", "0", "1", "8", "9"}

\* the characters of signed texts with an exponent part and a tab
ExponentAlphabet == {",", "+", "e", "\t", "1", "9"}

Strings ==
    UNION {[1..n -> Alphabet] \cup [1..n -> ExponentAlphabet] : n \in 0..MaxLen}

Sides == {Num(k) : k \in 1..MaxSide} \cup {Num(250), Num(500), Num(1000)}

DimensionsInputs == {Dim(w, h) : w \in Sides, h \in Sides}

\* sides that are no pixel counts: 1.1 and 1.4, whose products with 500 are
\* rounded; 2^1023, whose product with 500 overflows; 2^-1074, the smallest
\* number above 0; Infinity
UnusualSides == {Rat(11, 10), Rat(14, 10), PowerOfTwo(1023), PowerOfTwo(-1074), Inf(1)}

NormalizeInputs == {Dim(w, h) : w \in Sides \cup UnusualSides, h \in Sides \cup UnusualSides}

GpsA == GPS(Num(40), Num(-74))

GpsB == GPS(Rat(405, 10), Rat(-735, 10))

GpsC == GPS(Num(41), Num(-73))

GpsD == GPS(Num(90), Num(180))

GpsE == GPS(Rat(40005, 1000), Rat(-73995, 1000))

GPSInputs == {GpsA, GpsB, GpsC, GpsD, GpsE, GPS(Num(-90), Num(-180))}

PointInputs ==
    { CalibratedPoint(Cartesian(Num(0), Num(0)), GpsA),
      CalibratedPoint(Cartesian(Num(250), Num(250)), GpsB),
      CalibratedPoint(Cartesian(Num(500), Num(500)), GpsC),
      CalibratedPoint(Cartesian(Num(100), Num(400)), GpsE),
      CalibratedPoint(Cartesian(Num(250), Num(250)), GpsD),
      CalibratedPoint(Cartesian(Num(250), Num(250)), GpsA),
      CalibratedPoint(Cartesian(Num(500), Num(500)), GpsA),
      \* three points of one line, longitude = 0.1 * x, whose averaged scale
      \* (0.1 + 0.1 + 0.1) / 3 is rounded to 0.10000000000000002
      CalibratedPoint(Cartesian(Num(0), Num(0)), GPS(Num(0), Num(0))),
      CalibratedPoint(Cartesian(Num(1), Num(1)), GPS(Num(0), Rat(1, 10))),
      CalibratedPoint(Cartesian(Num(2), Num(2)), GPS(Num(0), Rat(2, 10))),
      \* two points next to x = 0 that give, with the point at (0,0), finite
      \* pair scales near 1.6e308 whose differences from the average overflow
      CalibratedPoint(Cartesian(PowerOfTwo(-1021), Num(1)), GPS(Num(0), Num(7))),
      CalibratedPoint(Cartesian(PowerOfTwo(-1017), Num(2)), GPS(Num(0), Num(-112))) }

CalibrationSets == UNION {[1..n -> PointInputs] : n \in 0..MaxPoints}

\* 500 by 500, 1000 by 500, and the thin 1 by 2^60, normalized to 500 * 2^-60
\* by 500
CalibrateDimensions ==
    {Dim(Num(500), Num(500)), Dim(Num(1000), Num(500)), Dim(Num(1), PowerOfTwo(60))}

(***************************************************************************)
(* The state: the last call made, its arguments and what it returned.      *)
(***************************************************************************)
NoDims == Dim(Num(1), Num(1))

NoGPS == GPS(Num(0), Num(0))

NoResult == [status |-> "none"]

\* a call of isValidGPSInput is about to be made with some input
InitGPS ==
    /\ op = "isValidGPSInput" /\ pc = "call"
    /\ gpsInput \in Strings /\ gpsResult = FALSE
    /\ dimsIn = NoDims /\ dimsOut = NoDims
    /\ calSet = <<>> /\ calDims = NoDims /\ calResult = NoResult
    /\ epOrigin = NoGPS /\ epOpposite = NoGPS /\ epDims = NoDims
    /\ epResult = MapScale(Num(0), Num(0))

InitNormalize ==
    /\ op = "normalizeImageDimensions" /\ pc = "call"
    /\ dimsIn \in NormalizeInputs /\ dimsOut = NoDims
    /\ gpsInput = <<>> /\ gpsResult = FALSE
    /\ calSet = <<>> /\ calDims = NoDims /\ calResult = NoResult
    /\ epOrigin = NoGPS /\ epOpposite = NoGPS /\ epDims = NoDims
    /\ epResult = MapScale(Num(0), Num(0))

InitEndpoints ==
    /\ op = "calculateScaleFromEndpoints" /\ pc = "call"
    /\ epOrigin \in GPSInputs /\ epOpposite \in GPSInputs /\ epDims \in DimensionsInputs
    /\ epResult = MapScale(Num(0), Num(0))
    /\ gpsInput = <<>> /\ gpsResult = FALSE
    /\ dimsIn = NoDims /\ dimsOut = NoDims
    /\ calSet = <<>> /\ calDims = NoDims /\ calResult = NoResult

InitCalibrate ==
    /\ op = "calibrate" /\ pc = "call"
    /\ calSet \in CalibrationSets /\ calDims \in CalibrateDimensions
    /\ calResult = NoResult
    /\ gpsInput = <<>> /\ gpsResult = FALSE
    /\ dimsIn = NoDims /\ dimsOut = NoDims
    /\ epOrigin = NoGPS /\ epOpposite = NoGPS /\ epDims = NoDims
    /\ epResult = MapScale(Num(0), Num(0))

Init == InitGPS \/ InitNormalize \/ InitEndpoints \/ InitCalibrate

CallIsValidGPSInput ==
    /\ op = "isValidGPSInput" /\ pc = "call"
    /\ gpsResult' = IsValidGPSInput(gpsInput)
    /\ pc' = "done"
    /\ UNCHANGED <<op, gpsInput, dimsIn, dimsOut, calSet, calDims, calResult,
                   epOrigin, epOpposite, epDims, epResult>>

CallNormalizeImageDimensions ==
    /\ op = "normalizeImageDimensions" /\ pc = "call"
    /\ dimsOut' = NormalizeImageDimensions(dimsIn)
    /\ pc' = "done"
    /\ UNCHANGED <<op, gpsInput, gpsResult, dimsIn, calSet, calDims, calResult,
                   epOrigin, epOpposite, epDims, epResult>>

CallCalculateScaleFromEndpoints ==
    /\ op = "calculateScaleFromEndpoints" /\ pc = "call"
    /\ epResult' = CalculateScaleFromEndpoints(epOrigin, epOpposite, epDims)
    /\ pc' = "done"
    /\ UNCHANGED <<op, gpsInput, gpsResult, dimsIn, dimsOut, calSet, calDims,
                   calResult, epOrigin, epOpposite, epDims>>

CallCalibrate ==
    /\ op = "calibrate" /\ pc = "call"
    /\ calResult' = Calibrate(calSet, calDims)
    /\ pc' = "done"
    /\ UNCHANGED <<op, gpsInput, gpsResult, dimsIn, dimsOut, calSet, calDims,
                   epOrigin, epOpposite, epDims, epResult>>

Next ==
    \/ CallIsValidGPSInput
    \/ CallNormalizeImageDimensions
    \/ CallCalculateScaleFromEndpoints
    \/ CallCalibrate

Spec == Init /\ [][Next]_vars

SpecGPS == InitGPS /\ [][CallIsValidGPSInput]_vars

SpecNormalize == InitNormalize /\ [][CallNormalizeImageDimensions]_vars

SpecEndpoints == InitEndpoints /\ [][CallCalculateScaleFromEndpoints]_vars

SpecCalibrate == InitCalibrate /\ [][CallCalibrate]_vars

(***************************************************************************)
(* Properties.                                                             *)
(***************************************************************************)
DigitChar(d) ==
    CASE d = 0 -> "0" [] d = 1 -> "1" [] d = 2 -> "2" [] d = 3 -> "3"
      [] d = 4 -> "4" [] d = 5 -> "5" [] d = 6 -> "6" [] d = 7 -> "7"
      [] d = 8 -> "8" [] d = 9 -> "9"

RECURSIVE NatText(_)
NatText(n) == IF n < 10 THEN <<DigitChar(n)>> ELSE NatText(n \div 10) \o <<DigitChar(n % 10)>>

\* the decimal text of the number k / 10: an integer when 10 divides k, else
\* with one digit after the point
TenthsText(k) ==
    LET tenthsBody == IF AbsInt(k) % 10 = 0 THEN NatText(AbsInt(k) \div 10)
                      ELSE NatText(AbsInt(k) \div 10) \o <<".", DigitChar(AbsInt(k) % 10)>>
    IN  IF k < 0 THEN <<"-">> \o tenthsBody ELSE tenthsBody

LatitudeTenths == -999..999

LongitudeTenths == -1999..1999

TextOfTenths == [k \in LongitudeTenths |-> TenthsText(k)]

LatitudeTexts == {TextOfTenths[k] : k \in LatitudeTenths}

LongitudeTexts == {TextOfTenths[k] : k \in LongitudeTenths}

Called(name) == op = name /\ pc = "done"

\* the real number x * y of two finite doubles, not rounded
RealMul(x, y) ==
    IF IsZero(x) \/ IsZero(y) THEN Zero(1)
    ELSE [kind |-> "fin", sign |-> x.sign * y.sign,
          m |-> BigMul(x.m, y.m), e |-> x.e + y.e]

\* the real number s * n * 2^e with n made odd
RealOf(s, n, e) ==
    IF n = <<>> THEN Zero(1)
    ELSE [kind |-> "fin", sign |-> s,
          m |-> BigShr(n, BigTrailingZeros(n)), e |-> e + BigTrailingZeros(n)]

\* the real number x - y of two finite values, not rounded
RealSub(x, y) ==
    IF IsZero(y) THEN (IF IsZero(x) THEN Zero(1) ELSE x)
    ELSE IF IsZero(x) THEN NumNeg(y)
    ELSE LET base == MinInt(x.e, y.e)
             xAligned == BigShl(x.m, x.e - base)
             yAligned == BigShl(y.m, y.e - base)
         IN  IF x.sign # y.sign THEN RealOf(x.sign, BigAdd(xAligned, yAligned), base)
             ELSE IF BigLe(yAligned, xAligned)
                  THEN RealOf(x.sign, BigSub(xAligned, yAligned), base)
             ELSE RealOf(-x.sign, BigSub(yAligned, xAligned), base)

\* the real number 2^k
RealPow2(k) == [kind |-> "fin", sign |-> 1, m |-> <<1>>, e |-> k]

\* |a - b| <= 2^k * |b| in real arithmetic, for finite a and b
WithinRelative(a, b, k) ==
    NumLe(NumAbs(RealSub(a, b)), RealMul(RealPow2(k), NumAbs(b)))

\* the positions of the commas of a text
Commas(s) == {i \in 1..Len(s) : s[i] = ","}

Least(S) == CHOOSE i \in S : \A j \in S : i <= j

\* the text before the first comma, the whole text when there is none
FirstField(s) == IF Commas(s) = {} THEN s ELSE SubSeq(s, 1, Least(Commas(s)) - 1)

AfterFirstComma(s) == SubSeq(s, Least(Commas(s)) + 1, Len(s))

\* the two fields read of a text with a comma
LatitudeField(s) == FirstField(s)

LongitudeField(s) == FirstField(AfterFirstComma(s))

DigitChars == {DigitChar(d) : d \in 0..9}

IsDigitChar(c) == c \in DigitChars

DigitOf(c) == CHOOSE d \in 0..9 : DigitChar(d) = c

RECURSIVE NaturalOf(_)
\* the natural number written by a text of fewer than 10 digits
NaturalOf(t) ==
    IF t = <<>> THEN 0
    ELSE NaturalOf(SubSeq(t, 1, Len(t) - 1)) * 10 + DigitOf(t[Len(t)])

\* a text from its first character that is no white space on
Ink(f) ==
    SubSeq(f, Least({i \in 1..Len(f) : f[i] \notin WhiteSpace} \cup {Len(f) + 1}), Len(f))

\* a text without its sign
Unsigned(u) == IF u # <<>> /\ u[1] \in {"+", "-"} THEN Tail(u) ELSE u

\* the position of the first e or E, past the end when there is none
MarkAt(u) == Least({i \in 1..Len(u) : u[i] \in {"e", "E"}} \cup {Len(u) + 1})

MantissaText(u) == SubSeq(u, 1, MarkAt(u) - 1)

ExponentText(u) == SubSeq(u, MarkAt(u) + 1, Len(u))

Dots(t) == {i \in 1..Len(t) : t[i] = "."}

\* digits with at most one point among them, and at least one digit
IsMantissa(t) ==
    /\ \A i \in 1..Len(t) : t[i] = "." \/ IsDigitChar(t[i])
    /\ Cardinality(Dots(t)) <= 1
    /\ \E i \in 1..Len(t) : IsDigitChar(t[i])

\* an optional sign and at least one digit
IsExponent(t) ==
    /\ Unsigned(t) # <<>>
    /\ \A i \in 1..Len(Unsigned(t)) : IsDigitChar(Unsigned(t)[i])

\* the field is, after leading white space, a decimal number and nothing else:
\* sign, digits with a point, and possibly an exponent
IsDecimalText(f) ==
    /\ IsMantissa(MantissaText(Unsigned(Ink(f))))
    /\ MarkAt(Unsigned(Ink(f))) <= Len(Unsigned(Ink(f)))
           => IsExponent(ExponentText(Unsigned(Ink(f))))

\* the number of digits after the point
FractionLength(t) == IF Dots(t) = {} THEN 0 ELSE Len(t) - Least(Dots(t))

\* the exponent written after the mark, 0 when there is no mark
ExponentOf(u) ==
    IF MarkAt(u) > Len(u) THEN 0
    ELSE IF ExponentText(u)[1] = "-" THEN -NaturalOf(Unsigned(ExponentText(u)))
    ELSE NaturalOf(Unsigned(ExponentText(u)))

\* n * 10^shift <= bound, for n below 10^7 and bound in 1..999
ScaledWithin(n, shift, bound) ==
    \/ n = 0
    \/ shift >= 0 /\ shift <= 2 /\ n * 10 ^ shift <= bound
    \/ shift < 0 /\ (shift <= -7 \/ n <= bound * 10 ^ (-shift))

\* the decimal number of the text u, without sign, is at most bound: the
\* number is its digits, as an integer, times 10^(exponent - fraction length)
MagnitudeWithin(u, bound) ==
    ScaledWithin(NaturalOf(SelectSeq(MantissaText(u), IsDigitChar)),
                 ExponentOf(u) - FractionLength(MantissaText(u)), bound)

\* the decimal number written in the field f is in [-bound, bound]
WithinBound(f, bound) == MagnitudeWithin(Unsigned(Ink(f)), bound)

\* no number starts the field: after white space and a sign there is no digit,
\* no point before a digit, and no Infinity
NoNumber(f) ==
    LET rest == Unsigned(Ink(f))
    IN  /\ ~(rest # <<>> /\ IsDigitChar(rest[1]))
        /\ ~(Len(rest) >= 2 /\ rest[1] = "." /\ IsDigitChar(rest[2]))
        /\ ~(Len(rest) >= 8
             /\ SubSeq(rest, 1, 8) = <<"I", "n", "f", "i", "n", "i", "t", "y">>)

\* C1: isValidGPSInput always returns a boolean; it returns false when the
\* input has no comma, when no number starts one of the two fields, and when
\* the decimal number written in the first field is outside [-90,90] or the one
\* in the second outside [-180,180]; it returns true when both fields are
\* decimal numbers in their ranges.  The numbers are read with integers from
\* the digits, the point and the exponent, and the texts "lat,lon" of all
\* tenths are written out from the integers.
C1_ValidGPS ==
    Called("isValidGPSInput") =>
        /\ gpsResult \in BOOLEAN
        /\ Commas(gpsInput) = {} => gpsResult = FALSE
        /\ Commas(gpsInput) # {} =>
            /\ (NoNumber(LatitudeField(gpsInput)) \/ NoNumber(LongitudeField(gpsInput)))
                   => gpsResult = FALSE
            /\ (/\ IsDecimalText(LatitudeField(gpsInput))
                /\ ~WithinBound(LatitudeField(gpsInput), 90))
                   => gpsResult = FALSE
            /\ (/\ IsDecimalText(LongitudeField(gpsInput))
                /\ ~WithinBound(LongitudeField(gpsInput), 180))
                   => gpsResult = FALSE
            /\ (/\ IsDecimalText(LatitudeField(gpsInput))
                /\ IsDecimalText(LongitudeField(gpsInput))
                /\ WithinBound(LatitudeField(gpsInput), 90)
                /\ WithinBound(LongitudeField(gpsInput), 180))
                   => gpsResult = TRUE
            /\ (/\ LatitudeField(gpsInput) \in LatitudeTexts
                /\ AfterFirstComma(gpsInput) \in LongitudeTexts)
                   => \A a \in LatitudeTenths : LatitudeField(gpsInput) = TextOfTenths[a] =>
                          \A b \in LongitudeTenths :
                              AfterFirstComma(gpsInput) = TextOfTenths[b] =>
                                  gpsResult = (a \in -900..900 /\ b \in -1800..1800)

\* the longitude -180, the least one in range, after a latitude in range
C1_Witness ==
    /\ Called("isValidGPSInput")
    /\ gpsInput = <<"0", ",", "-", "1", "8", "0">>
    /\ gpsResult = TRUE

\* a longitude below -180 after a latitude in range
C1_BelowLongitude ==
    /\ Called("isValidGPSInput")
    /\ gpsInput = <<"0", ",", "-", "1", "8", "1">>
    /\ gpsResult = FALSE

PositiveDimensions(d) == NumGt(d.width, Num(0)) /\ NumGt(d.height, Num(0))

\* C5 as stated, every expression read as the code computes it in doubles: for
\* positive dimensions normalizeImageDimensions returns width 500 and height
\* 500*height/width when width > height, otherwise height 500 and width
\* 500*width/height; the larger side is 500, both are at most 500, the aspect
\* ratio width'/height' equals width/height, and a square gives 500 by 500.
C5_Original ==
    (Called("normalizeImageDimensions") /\ PositiveDimensions(dimsIn)) =>
        /\ NumGt(dimsIn.width, dimsIn.height) =>
               /\ dimsOut.width = Num(500)
               /\ NumEq(dimsOut.height,
                        NumDiv(NumMul(Num(500), dimsIn.height), dimsIn.width))
        /\ ~NumGt(dimsIn.width, dimsIn.height) =>
               /\ dimsOut.height = Num(500)
               /\ NumEq(dimsOut.width,
                        NumDiv(NumMul(Num(500), dimsIn.width), dimsIn.height))
        /\ NumLe(dimsOut.width, Num(500)) /\ NumLe(dimsOut.height, Num(500))
        /\ dimsOut.width = Num(500) \/ dimsOut.height = Num(500)
        /\ NumEq(NumDiv(dimsOut.width, dimsOut.height),
                 NumDiv(dimsIn.width, dimsIn.height))
        /\ dimsIn.width = dimsIn.height => dimsOut = Dim(Num(500), Num(500))

PositiveFinite(d) == PositiveDimensions(d) /\ IsFinite(d.width) /\ IsFinite(d.height)

\* the side normalizeImageDimensions divides by, and the one it multiplies
LargerSide(d) == IF NumGt(d.width, d.height) THEN d.width ELSE d.height

SmallerSide(d) == IF NumGt(d.width, d.height) THEN d.height ELSE d.width

\* of the result for the dimensions d, the side that is not set to 500
ComputedSide(d, result) == IF NumGt(d.width, d.height) THEN result.height ELSE result.width

\* the double 500 * x is the real number 500 * x: nothing is rounded away and
\* nothing overflows, as for every integer x below 2^44
ExactTimes500(x) == NumMul(Num(500), x) = RealMul(Num(500), x)

\* the exponent of the last place of a finite double x >= 0
LastPlace(x) == IF IsZero(x) THEN -1074 ELSE MaxInt(Top(x) - 53, -1074)

\* x in units of its last place
InLastPlaces(x) == IF IsZero(x) THEN <<>> ELSE BigShl(x.m, x.e - LastPlace(x))

\* the real number halfway from x to the next double above
UpperMidpoint(x) ==
    RealOf(1, BigAdd(BigShl(InLastPlaces(x), 1), <<1>>), LastPlace(x) - 1)

\* the real number halfway from x to the next double below, x > 0: the
\* doubles below a power of 2 are half as far apart
LowerMidpoint(x) ==
    IF x.m = <<1>> /\ LastPlace(x) > -1074
    THEN RealOf(1, BigSub(BigShl(InLastPlaces(x), 2), <<1>>), LastPlace(x) - 2)
    ELSE RealOf(1, BigSub(BigShl(InLastPlaces(x), 1), <<1>>), LastPlace(x) - 1)

\* whether x in units of its last place is even
EvenLastPlace(x) == BigBit(InLastPlaces(x), 0) = 0

\* the finite double x >= 0 is the double nearest to the real number n / d,
\* n > 0 and d > 0 real: n / d is between the midpoints on the two sides of
\* x, and where it is a midpoint x is the even one of the two doubles
NearestDouble(x, n, d) ==
    /\ NumLe(n, RealMul(UpperMidpoint(x), d))
    /\ n = RealMul(UpperMidpoint(x), d) => EvenLastPlace(x)
    /\ ~IsZero(x) =>
           /\ NumLe(RealMul(LowerMidpoint(x), d), n)
           /\ n = RealMul(LowerMidpoint(x), d) => EvenLastPlace(x)

\* C5 amended: for finite dimensions with width > 0 and height > 0
\* normalizeImageDimensions returns width 500 when width > height and height
\* 500 otherwise.  The other side is 500 * s / l, s the smaller and l the
\* larger side of the input, computed with two roundings:
\*  - when 500 * s does not overflow and the computed side is at least
\*    2^-1022, the computed side is 500 * s / l with a relative error of at
\*    most 2^-51, and so the aspect ratio width'/height' is width/height with
\*    a relative error of at most 2^-51;
\*  - when 500 * s is exact in doubles, as for every integer s below 2^44, the
\*    computed side is the double nearest to 500 * s / l, both sides are at
\*    most 500 and the larger is 500, a square gives exactly 500 by 500, and
\*    when the computed side is at least 2^-1022 the aspect ratio is
\*    width/height with a relative error of at most 2^-52.
C5_Normalized ==
    (Called("normalizeImageDimensions") /\ PositiveFinite(dimsIn)) =>
        /\ NumGt(dimsIn.width, dimsIn.height) => dimsOut.width = Num(500)
        /\ ~NumGt(dimsIn.width, dimsIn.height) => dimsOut.height = Num(500)
        /\ (/\ IsFinite(NumMul(Num(500), SmallerSide(dimsIn)))
            /\ NumGe(ComputedSide(dimsIn, dimsOut), PowerOfTwo(-1022))) =>
               /\ WithinRelative(RealMul(ComputedSide(dimsIn, dimsOut), LargerSide(dimsIn)),
                                 RealMul(Num(500), SmallerSide(dimsIn)), -51)
               /\ WithinRelative(RealMul(dimsOut.width, dimsIn.height),
                                 RealMul(dimsOut.height, dimsIn.width), -51)
        /\ ExactTimes500(SmallerSide(dimsIn)) =>
               /\ NearestDouble(ComputedSide(dimsIn, dimsOut),
                                RealMul(Num(500), SmallerSide(dimsIn)),
                                LargerSide(dimsIn))
               /\ NumLe(dimsOut.width, Num(500)) /\ NumLe(dimsOut.height, Num(500))
               /\ dimsIn.width = dimsIn.height => dimsOut = Dim(Num(500), Num(500))
               /\ NumGe(ComputedSide(dimsIn, dimsOut), PowerOfTwo(-1022)) =>
                      WithinRelative(RealMul(dimsOut.width, dimsIn.height),
                                     RealMul(dimsOut.height, dimsIn.width), -52)

\* 3 by 7: the width 500 * 3 / 7 is not a double, and the nearest one is
\* returned
C5_Witness ==
    /\ Called("normalizeImageDimensions")
    /\ dimsIn = Dim(Num(3), Num(7))
    /\ dimsOut = Dim(Rat(1500, 7), Num(500))
    /\ RealMul(dimsOut.width, dimsIn.height) # RealMul(Num(500), dimsIn.width)
    /\ NearestDouble(dimsOut.width, RealMul(Num(500), dimsIn.width), dimsIn.height)

\* 1 by 9: the sides returned are 55.55555555555556 and 500, whose quotient
\* in doubles is 0.11111111111111112 where 1 / 9 is 0.1111111111111111
C5_RatioRounded ==
    /\ Called("normalizeImageDimensions")
    /\ dimsIn = Dim(Num(1), Num(9))
    /\ ~NumEq(NumDiv(dimsOut.width, dimsOut.height), NumDiv(dimsIn.width, dimsIn.height))

\* 1.1 by 1.1: 500 * 1.1 is rounded, and the square gives 499.99999999999994
\* by 500
C5_SquareBelow ==
    /\ Called("normalizeImageDimensions")
    /\ dimsIn = Dim(Rat(11, 10), Rat(11, 10))
    /\ ~ExactTimes500(SmallerSide(dimsIn))
    /\ NumLt(dimsOut.width, Num(500)) /\ dimsOut.height = Num(500)

\* 1.4 by 1.4: 500 * 1.4 is rounded, and the square gives 500.00000000000006
\* by 500, a side above 500
C5_SquareAbove ==
    /\ Called("normalizeImageDimensions")
    /\ dimsIn = Dim(Rat(14, 10), Rat(14, 10))
    /\ ~ExactTimes500(SmallerSide(dimsIn))
    /\ NumGt(dimsOut.width, Num(500)) /\ dimsOut.height = Num(500)

\* 2^1023 by 2^1023: 500 * 2^1023 overflows, and the square gives Infinity by
\* 500
C5_Overflow ==
    /\ Called("normalizeImageDimensions")
    /\ dimsIn = Dim(PowerOfTwo(1023), PowerOfTwo(1023))
    /\ dimsOut = Dim(Inf(1), Num(500))

\* 2^-1074 by 2^1023: the width underflows to 0, and the aspect ratio is lost
C5_Underflow ==
    /\ Called("normalizeImageDimensions")
    /\ dimsIn = Dim(PowerOfTwo(-1074), PowerOfTwo(1023))
    /\ ExactTimes500(SmallerSide(dimsIn))
    /\ dimsOut = Dim(Zero(1), Num(500))

\* Infinity by Infinity: the width is Infinity / Infinity, NaN
C5_Infinite ==
    /\ Called("normalizeImageDimensions")
    /\ dimsIn = Dim(Inf(1), Inf(1))
    /\ IsNaN(dimsOut.width) /\ dimsOut.height = Num(500)

\* C6 as stated: normalizeImageDimensions of {width: 500, height: 500} is
\* {width: 250, height: 500}.
C6_Original ==
    (Called("normalizeImageDimensions") /\ dimsIn = Dim(Num(500), Num(500)))
        => dimsOut = Dim(Num(250), Num(500))

\* C6 amended: normalizeImageDimensions of {width: 500, height: 500} is
\* {width: 500, height: 500}.
C6_SquareStaysSquare ==
    (Called("normalizeImageDimensions") /\ dimsIn = Dim(Num(500), Num(500)))
        => dimsOut = Dim(Num(500), Num(500))

C6_Witness ==
    /\ Called("normalizeImageDimensions")
    /\ dimsIn = Dim(Num(500), Num(500))
    /\ dimsOut.height = Num(500)

\* C10: calculateScaleFromEndpoints returns the pairwise scale of origin at
\* pixel (0,0) and opposite at pixel (W,H), (W,H) the normalized dimensions:
\* degreePerUnitX = (opposite.longitude - origin.longitude) / W and
\* degreePerUnitY = (opposite.latitude - origin.latitude) / H.
C10_EndpointsScale ==
    Called("calculateScaleFromEndpoints") =>
        LET normalizedEp == NormalizeImageDimensions(epDims)
            pairScale ==
                CalculateScale(
                    CalibratedPoint(Cartesian(Num(0), Num(0)), epOrigin),
                    CalibratedPoint(Cartesian(normalizedEp.width, normalizedEp.height),
                                    epOpposite))
        IN  /\ NumEq(epResult.degreePerUnitX,
                     NumDiv(NumSub(epOpposite.longitude, epOrigin.longitude),
                            normalizedEp.width))
            /\ NumEq(epResult.degreePerUnitY,
                     NumDiv(NumSub(epOpposite.latitude, epOrigin.latitude),
                            normalizedEp.height))
            /\ epResult = pairScale

C10_Witness ==
    /\ Called("calculateScaleFromEndpoints")
    /\ epOrigin = GpsA /\ epOpposite = GpsC
    /\ epDims = Dim(Num(1000), Num(500))
    /\ epResult = MapScale(Rat(1, 500), Rat(1, 250))

Returned == Called("calibrate") /\ calResult.status = "returned"

DistinctPixels(set) ==
    \A i, j \in 1..Len(set) :
        i < j => /\ ~NumEq(set[i].cartesian.x, set[j].cartesian.x)
                 /\ ~NumEq(set[i].cartesian.y, set[j].cartesian.y)

InRange(g) ==
    /\ NumGe(g.latitude, MinLatitude) /\ NumLe(g.latitude, MaxLatitude)
    /\ NumGe(g.longitude, MinLongitude) /\ NumLe(g.longitude, MaxLongitude)

SameGPS(g, h) == NumEq(g.latitude, h.latitude) /\ NumEq(g.longitude, h.longitude)

\* every pairwise scale and the two averaged scales are finite
FiniteScales(set) ==
    LET pairwise == PairScales(set)
        mean == AverageScale(pairwise)
    IN  /\ \A k \in 1..Len(pairwise) :
               IsFinite(pairwise[k].degreePerUnitX) /\ IsFinite(pairwise[k].degreePerUnitY)
        /\ IsFinite(mean.degreePerUnitX) /\ IsFinite(mean.degreePerUnitY)

\* every pairwise scale is the same
Consistent(set) ==
    LET every == PairScales(set)
    IN  \A k, l \in 1..Len(every) :
            /\ NumEq(every[k].degreePerUnitX, every[l].degreePerUnitX)
            /\ NumEq(every[k].degreePerUnitY, every[l].degreePerUnitY)

\* x is the double of x.toFixed(d): x has at most d decimal places
RoundedTo(x, d) == IsFinite(x) => NumEq(x, ToFixedParsed(x, d))

\* C2: for a set of exactly 2 points, the first at pixel (0,0) and the second
\* at the corner (W,H) of the normalized dimensions, calibrate returns a result
\* whose origin is the first point's GPS and whose opposite is the second's.
C2_CornersRoundTrip ==
    (/\ Called("calibrate")
     /\ Len(calSet) = 2
     /\ calSet[1].cartesian = Cartesian(Num(0), Num(0))
     /\ calSet[2].cartesian = Cartesian(NormalizeImageDimensions(calDims).width,
                                        NormalizeImageDimensions(calDims).height))
        => /\ calResult.status = "returned"
           /\ SameGPS(calResult.origin, calSet[1].gps)
           /\ SameGPS(calResult.opposite, calSet[2].gps)

\* C3: for every set of n >= 2 points with pairwise distinct pixel coordinates
\* on both axes and positive dimensions, calibrate returns a result, and every
\* index the error loop reads is an index of scales.
C3_ErrorLoopReadsInRange ==
    (/\ Called("calibrate")
     /\ Len(calSet) >= 2
     /\ DistinctPixels(calSet)
     /\ PositiveDimensions(calDims))
        => /\ calResult.status = "returned"
           /\ \A i \in ErrorLoopIndices(calSet) : i < Len(PairScales(calSet))

\* C4 as stated: with fewer than 2 points calibrate does not raise; it returns a
\* result whose numeric fields are NaN.
C4_Original ==
    (Called("calibrate") /\ Len(calSet) < 2)
        => /\ calResult.status = "returned"
           /\ IsNaN(calResult.origin.latitude) /\ IsNaN(calResult.origin.longitude)
           /\ IsNaN(calResult.opposite.latitude) /\ IsNaN(calResult.opposite.longitude)
           /\ IsNaN(calResult.maxError.x) /\ IsNaN(calResult.maxError.y)

\* C4 amended: with fewer than 2 points calibrate raises a TypeError and returns
\* no result; with 1 point the averaged scales are NaN (0/0) before it raises.
C4_FewerThanTwoRaises ==
    (Called("calibrate") /\ Len(calSet) < 2)
        => /\ calResult = TypeError
           /\ Len(calSet) = 1 =>
                  /\ IsNaN(AverageScale(PairScales(calSet)).degreePerUnitX)
                  /\ IsNaN(AverageScale(PairScales(calSet)).degreePerUnitY)

C4_Witness ==
    /\ Called("calibrate")
    /\ Len(calSet) = 1
    /\ calResult = TypeError

\* C7 as stated: whenever calibrate returns a result with finite scales,
\* maxError.x >= 0 and maxError.y >= 0, and for a perfectly consistent set both
\* are 0.
C7_Original ==
    (Returned /\ FiniteScales(calSet))
        => /\ NumGe(calResult.maxError.x, Num(0))
           /\ NumGe(calResult.maxError.y, Num(0))
           /\ Consistent(calSet) =>
                  /\ NumEq(calResult.maxError.x, Num(0))
                  /\ NumEq(calResult.maxError.y, Num(0))

\* the diagonal the differences are divided by
DiagonalOf(set, dimensions) ==
    Diagonal(NormalizeImageDimensions(dimensions), AverageScale(PairScales(set)))

\* the diagonal is finite and not 0
FiniteNonZeroDiagonal(set, dimensions) ==
    IsFinite(DiagonalOf(set, dimensions)) /\ ~IsZero(DiagonalOf(set, dimensions))

\* both normalized sides are at least 1
SidesAtLeastOne(dimensions) ==
    /\ NumGe(NormalizeImageDimensions(dimensions).width, Num(1))
    /\ NumGe(NormalizeImageDimensions(dimensions).height, Num(1))

\* C7 amended: whenever calibrate returns a result with finite scales and a
\* diagonal that is finite and not 0, maxError.x >= 0 and maxError.y >= 0, and
\* for a perfectly consistent such set on dimensions whose normalized sides are
\* at least 1 both are 0.
C7_ErrorNonNegative ==
    (Returned /\ FiniteScales(calSet) /\ FiniteNonZeroDiagonal(calSet, calDims))
        => /\ NumGe(calResult.maxError.x, Num(0))
           /\ NumGe(calResult.maxError.y, Num(0))
           /\ (Consistent(calSet) /\ SidesAtLeastOne(calDims)) =>
                  /\ NumEq(calResult.maxError.x, Num(0))
                  /\ NumEq(calResult.maxError.y, Num(0))

\* the three points of the line longitude = 0.1 * x on 500 by 500: the
\* averaged scale is rounded, 0.10000000000000002 for the 0.1 of every pair,
\* and the difference is too small to show in 3 decimal places
C7_Witness ==
    /\ Returned
    /\ Len(calSet) = 3
    /\ calDims = Dim(Num(500), Num(500))
    /\ FiniteScales(calSet) /\ FiniteNonZeroDiagonal(calSet, calDims)
    /\ Consistent(calSet) /\ SidesAtLeastOne(calDims)
    /\ ~NumEq(AverageScale(PairScales(calSet)).degreePerUnitX,
              PairScales(calSet)[1].degreePerUnitX)
    /\ NumEq(calResult.maxError.x, Num(0)) /\ NumEq(calResult.maxError.y, Num(0))

\* three points at one GPS position: every scale is 0, the diagonal is 0 and
\* the errors are 0 / 0, NaN
C7_ZeroDiagonal ==
    /\ Returned /\ FiniteScales(calSet) /\ Consistent(calSet)
    /\ IsZero(DiagonalOf(calSet, calDims))
    /\ IsNaN(calResult.maxError.x) /\ IsNaN(calResult.maxError.y)

\* finite scales near 1.6e308: a difference from the average and the diagonal
\* both overflow, and the error is Infinity / Infinity, NaN
C7_InfiniteDiagonal ==
    /\ Returned /\ FiniteScales(calSet)
    /\ DiagonalOf(calSet, calDims) = Inf(1)
    /\ IsNaN(calResult.maxError.x)

\* the three points of the line longitude = 0.1 * x on 1 by 2^60: the
\* normalized width is 500 * 2^-60, the diagonal 4.3e-17, and the rounding of
\* the averaged scale shows as an error of 32 per cent
C7_ThinImage ==
    /\ Returned /\ FiniteScales(calSet) /\ Consistent(calSet)
    /\ FiniteNonZeroDiagonal(calSet, calDims)
    /\ ~SidesAtLeastOne(calDims)
    /\ calResult.maxError.x = Num(32)

\* C8: in the result of calibrate the latitude and longitude of origin and
\* opposite are rounded to 6 decimal places, and maxError.x and maxError.y to 3.
C8_Rounded ==
    Returned
        => /\ RoundedTo(calResult.origin.latitude, 6)
           /\ RoundedTo(calResult.origin.longitude, 6)
           /\ RoundedTo(calResult.opposite.latitude, 6)
           /\ RoundedTo(calResult.opposite.longitude, 6)
           /\ RoundedTo(calResult.maxError.x, 3)
           /\ RoundedTo(calResult.maxError.y, 3)

\* C9: for every set of n >= 2 points with GPS inputs in range and pairwise
\* distinct pixel coordinates, the returned origin and opposite are in range.
C9_OutputsInRange ==
    (/\ Returned
     /\ Len(calSet) >= 2
     /\ \A i \in 1..Len(calSet) : InRange(calSet[i].gps)
     /\ DistinctPixels(calSet))
        => InRange(calResult.origin) /\ InRange(calResult.opposite)

====
